---- MODULE Spec2Model ----
(***************************************************************************)
(* Relationship lifecycle of the VibeCircles backend.                      *)
(*                                                                         *)
(* Two parallel implementations are modelled side by side:                 *)
(*   - the friendship variant of src/routes/users.js (table friendships,   *)
(*     row-API database client);                                           *)
(*   - the follow variant of the SQL users router (table followers).       *)
(* Every HTTP handler is one action; the response it sends is kept in the  *)
(* variable res so that status codes can be related to the tables.         *)
(***************************************************************************)
EXTENDS Integers, Sequences, FiniteSets, TLC

\* ------------------------------------------------------------------------
\* Bounds of the model
\* ------------------------------------------------------------------------

\* largest auto-increment id handed out per table
MaxRowId == 2

\* ------------------------------------------------------------------------
\* The users table (fixed: no handler of the modelled routes writes to it)
\* ------------------------------------------------------------------------

Users == {3, 7, 37}

\* rows of users with is_active = 1: login refuses the others, so requests
\* are made by these
ActiveUsers == {3, 7}

\* the two implementations of the /api/users router; a server runs one
Backends == {"baas", "sql"}

\* req.user absent (optionalAuth without a valid token)
Anonymous == 0

\* SQL NULL
Null == 0

\* JavaScript NaN
NaN == -1

\* an absent query parameter or environment variable
Undefined == -2

\* no middleware is serving a request
NoCall == [pc |-> "idle"]

\* no upload request is being served
Idle == [pc |-> "idle", route |-> "", uuid |-> 0, size |-> 0]

\* ------------------------------------------------------------------------
\* The :id path parameter is a string; characters are one-character strings
\* ------------------------------------------------------------------------

DigitChars == {"0", "3", "7"}

DigitVal(c) == CASE c = "0" -> 0 [] c = "3" -> 3 [] c = "7" -> 7 [] OTHER -> NaN

\* the :id values requests are made with: ids of users, an id with a leading
\* zero, the id of no user, zero, and strings that are not integers
IdParams == {<<"3">>, <<"7">>, <<"3", "7">>, <<"0", "3">>, <<"3", "3">>, <<"0">>, <<"7", "x">>}

\* value of a string that consists of digits only
RECURSIVE DecimalValue(_)
DecimalValue(s) == IF s = <<>> THEN 0 ELSE 10 * DecimalValue(SubSeq(s, 1, Len(s) - 1)) + DigitVal(s[Len(s)])

\* the longest prefix of s made of digits
RECURSIVE DigitPrefix(_)
DigitPrefix(s) == IF s = <<>> \/ Head(s) \notin DigitChars THEN <<>> ELSE <<Head(s)>> \o DigitPrefix(Tail(s))

AllDigits(s) == \A i \in 1..Len(s) : s[i] \in DigitChars

\* express-validator param('id').isInt({ min: 1 })
validateId(s) == AllDigits(s) /\ Len(s) >= 1 /\ DecimalValue(s) >= 1

\* JavaScript parseInt(string): leading digits, NaN when there are none
parseInt(s) == IF DigitPrefix(s) = <<>> THEN NaN ELSE DecimalValue(DigitPrefix(s))

\* JavaScript ToNumber(string), as applied by the loose comparison number == string
ToNumber(s) == IF AllDigits(s) THEN DecimalValue(s) ELSE NaN

\* MySQL comparing an integer column with a string parameter: numeric prefix
SqlNumber(s) == DecimalValue(DigitPrefix(s))

\* ------------------------------------------------------------------------
\* State
\* ------------------------------------------------------------------------

\* backend: the implementation this server runs
\* friendships, followers: the tables, as sets of rows
\* nextFriendshipId, nextFollowerId: the tables' auto-increment counters
\* res: the response to the latest request
\* prev: the response before it, when that was a successful respond (history)
VARIABLES backend, friendships, nextFriendshipId, followers, nextFollowerId, res, prev

\* posts, comments, likes: the tables, as sets of rows
\* nextPostId, nextCommentId: the tables' auto-increment counters
VARIABLES posts, nextPostId, comments, nextCommentId, likes

\* maxFileSize: process.env.MAX_FILE_SIZE, as parseInt reads it
\* files: the files of the uploads directory
\* nextUuid: the uuids handed out so far, each one new
\* upload: the upload request being served and the step it has reached
\* avatar: users.avatar of the uploading user
VARIABLES maxFileSize, files, nextUuid, upload, avatar

\* counts: the likes_count and comments_count columns of the posts rows, by
\* post id
\* nextLikeId: the auto-increment counter of the likes table
VARIABLES counts, nextLikeId

\* users: the users table, by id: password_hash and verification_token
\* nextToken: the reset tokens drawn so far, each one new
\* clock: Date.now()
\* resetTokenExpiry: the expiry that forgot-password computed for the token
\* of each user
VARIABLES users, nextToken, clock, resetTokenExpiry

\* groups, group_members: the tables, as sets of rows
\* nextGroupId, nextMemberId: the tables' auto-increment counters
VARIABLES groups, nextGroupId, group_members, nextMemberId

\* call: the request a middleware is serving, or the call of a function,
\* with what it has answered so far
VARIABLES call

socialVars == <<friendships, nextFriendshipId, followers, nextFollowerId, prev>>

contentVars == <<posts, nextPostId, comments, nextCommentId, likes>>

\* what the friendship and follow routes leave alone, and what the posts and
\* comments routes leave alone
uploadVars == <<maxFileSize, files, nextUuid, upload, avatar>>

countVars == <<counts, nextLikeId>>

\* the state of the other routers
accountVars == <<users, nextToken, clock, resetTokenExpiry>>

groupVars == <<groups, nextGroupId, group_members, nextMemberId>>

otherVars == <<countVars, accountVars, groupVars>>

nonSocialVars == <<contentVars, uploadVars, otherVars, call>>

nonContentVars == <<socialVars, uploadVars, otherVars, call>>

nonUploadVars == <<backend, socialVars, contentVars, otherVars, call>>

\* what the middleware leave alone
tables == <<backend, res, socialVars, contentVars, uploadVars, otherVars>>

vars == <<tables, call>>

\* the response sent: route, req.user.id, the id the handler read from :id
\* (NaN when validation stopped the request before the handler), the action
\* of the request's body (respond route only), status code and message
Respond(route, user, id, action, code, message) ==
  [route |-> route, user |-> user, id |-> id, action |-> action, code |-> code, message |-> message]

Response(route, user, id, code, message) == Respond(route, user, id, "", code, message)

NoResponse == Response("none", Anonymous, NaN, 0, "")

\* history: the response that came before the latest one, kept when it was
\* a successful answer of the respond route
Log == prev' = IF res.route = "PUT friend-request" /\ res.code = 200 THEN res ELSE NoResponse

\* db.query('friendships', { where: { user_id: currentUserId, friend_id: targetUserId } })
ExistingFriendship_Reversed(currentUserId, targetUserId) ==
  {f \in friendships : f.user_id = targetUserId /\ f.friend_id = currentUserId}

ExistingFriendship(currentUserId, targetUserId) ==
  {f \in friendships : f.user_id = currentUserId /\ f.friend_id = targetUserId}

\* Blocked rows are written by no route of the repository but are read by
\* the friend-request handler: the table may hold them from the start.
BlockedTables ==
  { {}, {[id |-> 1, user_id |-> 3, friend_id |-> 7, status |-> "blocked", accepted_at |-> Null]} }

\* bcrypt.hash(password, saltRounds)
Hash(password) == [bcrypt |-> password]

\* the other routers' tables: no post has counters yet, every user has a
\* password and no reset token
InitOther ==
  /\ counts = <<>>
  /\ nextLikeId = 1
  /\ users = [id \in ActiveUsers |-> [id |-> id, password_hash |-> Hash("old"), verification_token |-> Null]]
  /\ nextToken = 1
  /\ clock = 0
  /\ resetTokenExpiry = [id \in ActiveUsers |-> Null]
  /\ groups = {} /\ nextGroupId = 1
  /\ group_members = {} /\ nextMemberId = 1

Init ==
  /\ backend \in Backends
  /\ friendships \in BlockedTables
  /\ nextFriendshipId = Cardinality(friendships) + 1
  /\ followers = {}
  /\ nextFollowerId = 1
  /\ res = NoResponse
  /\ prev = NoResponse
  /\ posts = {} /\ nextPostId = 1
  /\ comments = {} /\ nextCommentId = 1
  /\ likes = {}
  /\ maxFileSize = Undefined
  /\ files = {} /\ nextUuid = 1
  /\ upload = Idle
  /\ avatar = Null
  /\ InitOther
  /\ call = NoCall

\* ------------------------------------------------------------------------
\* Friendship variant (src/routes/users.js)
\* ------------------------------------------------------------------------

\* db.insert('friendships', { user_id, friend_id, status: 'pending' })
InsertFriendRequest_Stamped(currentUserId, targetUserId) ==
  /\ nextFriendshipId <= MaxRowId
  /\ friendships' = friendships \cup
       {[id |-> nextFriendshipId, user_id |-> currentUserId, friend_id |-> targetUserId,
         status |-> "pending", accepted_at |-> 1]}
  /\ nextFriendshipId' = nextFriendshipId + 1

InsertFriendRequest(currentUserId, targetUserId) ==
  /\ nextFriendshipId <= MaxRowId
  /\ friendships' = friendships \cup
       {[id |-> nextFriendshipId, user_id |-> currentUserId, friend_id |-> targetUserId,
         status |-> "pending", accepted_at |-> Null]}
  /\ nextFriendshipId' = nextFriendshipId + 1

\* POST /users/:id/friend-request
SendFriendRequest(currentUserId, id) ==
  LET targetUserId == parseInt(id)
      existingFriendship == ExistingFriendship(currentUserId, targetUserId)
      reply(code, message) == Response("POST friend-request", currentUserId, targetUserId, code, message)
      invalid == Response("POST friend-request", currentUserId, NaN, 400, "Validation failed")
      refuse(code, message) == res' = reply(code, message) /\ UNCHANGED <<friendships, nextFriendshipId>>
      create == InsertFriendRequest(currentUserId, targetUserId) /\ res' = reply(201, "Friend request sent successfully")
  IN  /\ backend = "baas"
      /\ Log
      /\ UNCHANGED <<nonSocialVars, backend, followers, nextFollowerId>>
      /\ IF ~validateId(id) THEN res' = invalid /\ UNCHANGED <<friendships, nextFriendshipId>>
         ELSE IF targetUserId = currentUserId THEN refuse(400, "You cannot send a friend request to yourself")
         ELSE IF targetUserId \notin Users THEN refuse(404, "User not found")
         ELSE IF existingFriendship = {} THEN create
         ELSE \E friendship \in existingFriendship :
                IF friendship.status = "pending" THEN refuse(400, "Friend request already sent")
                ELSE IF friendship.status = "accepted" THEN refuse(400, "You are already friends")
                ELSE IF friendship.status = "blocked" THEN refuse(400, "Cannot send friend request to blocked user")
                ELSE create

\* db.update('friendships', id, { status: 'accepted', accepted_at: now })
AcceptFriendship_NoStamp(rowId, now) ==
  friendships' = {IF f.id = rowId THEN [f EXCEPT !.status = "accepted"] ELSE f : f \in friendships}

AcceptFriendship(rowId, now) ==
  friendships' = {IF f.id = rowId THEN [f EXCEPT !.status = "accepted", !.accepted_at = now] ELSE f : f \in friendships}

\* db.delete('friendships', id)
DeleteFriendship_Noop(rowId) ==
  friendships' = friendships

DeleteFriendship(rowId) ==
  friendships' = {f \in friendships : f.id # rowId}

\* the pending requests the respond handler looks up
PendingRequests_AnyTarget(requesterId, currentUserId) ==
  {f \in friendships : f.user_id = requesterId /\ f.status = "pending"}

PendingRequests(requesterId, currentUserId) ==
  {f \in friendships : f.user_id = requesterId /\ f.friend_id = currentUserId /\ f.status = "pending"}

\* PUT /users/:id/friend-request
RespondFriendRequest(currentUserId, id, action, now) ==
  LET requesterId == parseInt(id)
      friendship == PendingRequests(requesterId, currentUserId)
      reply(code, message) == Respond("PUT friend-request", currentUserId, requesterId, action, code, message)
      invalid == Respond("PUT friend-request", currentUserId, NaN, action, 400, "Validation failed")
      refuse(code, message) == res' = reply(code, message) /\ UNCHANGED friendships
  IN  /\ backend = "baas"
      /\ Log
      /\ UNCHANGED <<nonSocialVars, backend, nextFriendshipId, followers, nextFollowerId>>
      /\ IF ~validateId(id) THEN res' = invalid /\ UNCHANGED friendships
         ELSE IF action \notin {"accept", "reject"} THEN refuse(400, "Action must be either accept or reject")
         ELSE IF friendship = {} THEN refuse(404, "Friend request not found")
         ELSE \E first \in friendship :
                IF action = "accept"
                  THEN AcceptFriendship(first.id, now) /\ res' = reply(200, "Friend request accepted")
                  ELSE DeleteFriendship(first.id) /\ res' = reply(200, "Friend request rejected")

\* the accepted friendships the remove handler looks up
AcceptedFriendships_AnyStatus(currentUserId, friendId) ==
  {f \in friendships : f.user_id = currentUserId /\ f.friend_id = friendId}

AcceptedFriendships(currentUserId, friendId) ==
  {f \in friendships : f.user_id = currentUserId /\ f.friend_id = friendId /\ f.status = "accepted"}

\* DELETE /users/:id/friend
RemoveFriend(currentUserId, id) ==
  LET friendId == parseInt(id)
      friendship == AcceptedFriendships(currentUserId, friendId)
      reply(code, message) == Response("DELETE friend", currentUserId, friendId, code, message)
      invalid == Response("DELETE friend", currentUserId, NaN, 400, "Validation failed")
  IN  /\ backend = "baas"
      /\ Log
      /\ UNCHANGED <<nonSocialVars, backend, nextFriendshipId, followers, nextFollowerId>>
      /\ IF ~validateId(id) THEN res' = invalid /\ UNCHANGED friendships
         ELSE IF friendship = {} THEN res' = reply(404, "Friendship not found") /\ UNCHANGED friendships
         ELSE \E first \in friendship :
                DeleteFriendship(first.id) /\ res' = reply(200, "Friend removed successfully")

\* express-validator query('page').optional().isInt({ min: 1 }),
\* query('limit').optional().isInt({ min: 1, max: 100 })
validatePagination(page, limit) ==
  /\ page = Undefined \/ page >= 1
  /\ limit = Undefined \/ limit \in 1..100

\* parseInt(req.query.x) || fallback
ParseOr(x, fallback) == IF x = Undefined \/ x = 0 THEN fallback ELSE x

Min(a, b) == IF a < b THEN a ELSE b

\* db.query(table, { where, limit, offset }) states no order: any limit rows
\* left after skipping offset of them
Pages(rows, limit, offset) ==
  LET left == IF Cardinality(rows) > offset THEN Cardinality(rows) - offset ELSE 0
  IN  {page \in SUBSET rows : Cardinality(page) = Min(limit, left)}

\* the accepted friendships GET /users/:id/friends and GET /users/:id list
FriendshipsOf(userId) == {f \in friendships : f.user_id = userId /\ f.status = "accepted"}

\* GET /users/:id/friends: the responses the handler may send (friends as
\* the set of their ids)
GetUserFriends(id, queryPage, queryLimit) ==
  LET userId == parseInt(id)
      page == ParseOr(queryPage, 1)
      limit == ParseOr(queryLimit, 10)
      offset == (page - 1) * limit
  IN  IF ~validateId(id) \/ ~validatePagination(queryPage, queryLimit)
        THEN {[code |-> 400, friends |-> {}, total |-> 0]}
      ELSE IF userId \notin Users
        THEN {[code |-> 404, friends |-> {}, total |-> 0]}
      ELSE {[code |-> 200,
             friends |-> {f.friend_id : f \in {g \in rows : g.friend_id \in Users}},
             total |-> Cardinality(FriendshipsOf(userId))] :
              rows \in Pages(FriendshipsOf(userId), limit, offset)}

\* db.query('friendships', { where: { user_id: req.user.id, friend_id: userId } })
ViewerFriendship(viewer, userId) ==
  {f \in friendships : f.user_id = viewer /\ f.friend_id = userId}

\* GET /users/:id as viewer (Anonymous without a token): the responses the
\* handler may send, reduced to stats.friends and the friendship object
GetUser(viewer, id) ==
  LET userId == parseInt(id)
      friendsCount == Cardinality(FriendshipsOf(userId))
      friendship == ViewerFriendship(viewer, userId)
  IN  IF ~validateId(id)
        THEN {[code |-> 400, friends |-> 0, isFriend |-> FALSE, status |-> "null"]}
      ELSE IF userId \notin Users
        THEN {[code |-> 404, friends |-> 0, isFriend |-> FALSE, status |-> "null"]}
      ELSE IF viewer = Anonymous \/ viewer = userId \/ friendship = {}
        THEN {[code |-> 200, friends |-> friendsCount, isFriend |-> FALSE, status |-> "null"]}
      ELSE {[code |-> 200, friends |-> friendsCount, isFriend |-> (first.status = "accepted"), status |-> first.status] :
              first \in friendship}

\* ------------------------------------------------------------------------
\* Follow variant (SQL users router)
\* ------------------------------------------------------------------------

\* the rows of followers with follower_id = a and following_id = b
FollowRows(a, b) == {f \in followers : f.follower_id = a /\ f.following_id = b}

\* INSERT INTO followers (follower_id, following_id, created_at) VALUES (?, ?, NOW())
InsertFollower_IfAbsent(followerId, followingId) ==
  /\ nextFollowerId <= MaxRowId
  /\ followers' = IF FollowRows(followerId, followingId) # {} THEN followers
                  ELSE followers \cup {[id |-> nextFollowerId, follower_id |-> followerId,
                                        following_id |-> followingId]}
  /\ nextFollowerId' = nextFollowerId + 1

InsertFollower(followerId, followingId) ==
  /\ nextFollowerId <= MaxRowId
  /\ followers' = followers \cup {[id |-> nextFollowerId, follower_id |-> followerId, following_id |-> followingId]}
  /\ nextFollowerId' = nextFollowerId + 1

\* req.user.id == userIdToFollow, a number compared with a string
StrictEquals(number, string) == FALSE

LooseEquals(number, string) == number = ToNumber(string)

\* POST /users/:id/follow
\* :id reaches the statements as the string it is: the server compares it
\* by its numeric prefix and, a string that is not an integer being no value
\* for an integer column (strict mode, the default of MySQL 8), fails the
\* INSERT, which the handler answers with 500.
FollowUser(currentUserId, userIdToFollow) ==
  LET followingId == SqlNumber(userIdToFollow)
      reply(code, message) == Response("POST follow", currentUserId, followingId, code, message)
      refuse(code, message) == res' = reply(code, message) /\ UNCHANGED <<followers, nextFollowerId>>
  IN  /\ backend = "sql"
      /\ Log
      /\ UNCHANGED <<nonSocialVars, backend, friendships, nextFriendshipId>>
      /\ IF LooseEquals(currentUserId, userIdToFollow) THEN refuse(400, "Cannot follow yourself")
         ELSE IF followingId \notin ActiveUsers THEN refuse(404, "User not found")
         ELSE IF FollowRows(currentUserId, followingId) # {} THEN refuse(400, "Already following this user")
         ELSE IF ~AllDigits(userIdToFollow) THEN refuse(500, "Server error")
         ELSE InsertFollower(currentUserId, followingId) /\ res' = reply(200, "User followed successfully")

\* DELETE /users/:id/follow
UnfollowUser(currentUserId, userIdToUnfollow) ==
  LET followingId == SqlNumber(userIdToUnfollow)
      affectedRows == Cardinality(FollowRows(currentUserId, followingId))
      reply(code, message) == Response("DELETE follow", currentUserId, followingId, code, message)
  IN  /\ backend = "sql"
      /\ Log
      /\ UNCHANGED <<nonSocialVars, backend, friendships, nextFriendshipId, nextFollowerId>>
      /\ followers' = followers \ FollowRows(currentUserId, followingId)
      /\ res' = IF affectedRows = 0 THEN reply(400, "Not following this user")
                                   ELSE reply(200, "User unfollowed successfully")

\* ------------------------------------------------------------------------
\* Posts, comments and likes (src/unnamed/part_004, src/unnamed/part_003)
\* ------------------------------------------------------------------------

MaxPostId == 1

MaxCommentId == 1

\* the ids requests name in :id and postId
PostIds == 1..MaxPostId

CommentIds == 1..MaxCommentId

\* the content in the body of a create request and of an update request
NewContents == {"text"}

Edits == {"edit"}

\* the callers of the BaaS routes and their req.user.role; the callers of
\* the SQL routes, of whom the first writes posts and comments and the
\* second likes them
BaasCallers == Users

SqlCallers == ActiveUsers

SqlAuthors == {3}

SqlLikers == {7}

\* req.user.role, from the users table of the BaaS implementation
Role(userId) == IF userId = 37 THEN "moderator" ELSE "user"

\* INSERT INTO posts (user_id, content, ...) / db.insert('posts', postData)
InsertPost(userId, content) ==
  /\ nextPostId <= MaxPostId
  /\ posts' = posts \cup {[id |-> nextPostId, user_id |-> userId, content |-> content, is_active |-> TRUE]}
  /\ nextPostId' = nextPostId + 1

\* SQL POST /posts
SqlCreatePost(userId, content) ==
  /\ backend = "sql"
  /\ InsertPost(userId, content)
  /\ res' = Response("POST post", userId, nextPostId, 201, "Post created successfully")
  /\ UNCHANGED <<nonContentVars, backend, comments, nextCommentId, likes>>

\* BaaS POST /posts, to no group: the row starts with both counters at 0
CreatePost(userId, content) ==
  /\ backend = "baas"
  /\ InsertPost(userId, content)
  /\ counts' = Append(counts, [likes_count |-> 0, comments_count |-> 0])
  /\ res' = Response("POST post", userId, nextPostId, 201, "Post created successfully")
  /\ UNCHANGED <<socialVars, uploadVars, accountVars, groupVars, nextLikeId, call, backend, comments, nextCommentId, likes>>

\* db.findById('posts', postId)
FindPost(postId) == {p \in posts : p.id = postId}

\* BaaS PUT /posts/:id
UpdatePost(userId, postId, content) ==
  LET reply(code, message) == Response("PUT post", userId, postId, code, message)
  IN  /\ backend = "baas"
      /\ UNCHANGED <<nonContentVars, backend, nextPostId, comments, nextCommentId, likes>>
      /\ IF FindPost(postId) = {}
           THEN res' = reply(404, "Post not found") /\ UNCHANGED posts
           ELSE \E post \in FindPost(postId) :
                  IF post.user_id # userId /\ Role(userId) # "admin"
                    THEN res' = reply(403, "You can only edit your own posts") /\ UNCHANGED posts
                    ELSE /\ posts' = (posts \ {post}) \cup {[post EXCEPT !.content = content]}
                         /\ res' = reply(200, "Post updated successfully")

\* BaaS DELETE /posts/:id
DeletePost(userId, postId) ==
  LET reply(code, message) == Response("DELETE post", userId, postId, code, message)
  IN  /\ backend = "baas"
      /\ UNCHANGED <<nonContentVars, backend, nextPostId, comments, nextCommentId, likes>>
      /\ IF FindPost(postId) = {}
           THEN res' = reply(404, "Post not found") /\ UNCHANGED posts
           ELSE \E post \in FindPost(postId) :
                  IF post.user_id # userId /\ Role(userId) \notin {"admin", "moderator"}
                    THEN res' = reply(403, "You can only delete your own posts") /\ UNCHANGED posts
                    ELSE /\ posts' = posts \ {post}
                         /\ res' = reply(200, "Post deleted successfully")

\* SELECT id FROM posts WHERE id = ? AND is_active = 1
ActivePost_Deleted(postId) == {p \in posts : p.id = postId}

ActivePost(postId) == {p \in posts : p.id = postId /\ p.is_active}

\* SELECT id FROM posts WHERE id = ? AND user_id = ? AND is_active = 1
OwnPost(postId, userId) == {p \in posts : p.id = postId /\ p.user_id = userId /\ p.is_active}

\* SQL PUT /posts/:id
SqlUpdatePost(userId, postId, content) ==
  LET reply(code, message) == Response("PUT post", userId, postId, code, message)
  IN  /\ backend = "sql"
      /\ UNCHANGED <<nonContentVars, backend, nextPostId, comments, nextCommentId, likes>>
      /\ IF OwnPost(postId, userId) = {}
           THEN res' = reply(404, "Post not found or not authorized") /\ UNCHANGED posts
           ELSE /\ posts' = {IF p.id = postId THEN [p EXCEPT !.content = content] ELSE p : p \in posts}
                /\ res' = reply(200, "Post updated successfully")

\* SQL DELETE /posts/:id: UPDATE posts SET is_active = 0 WHERE id = ?
SqlDeletePost(userId, postId) ==
  LET reply(code, message) == Response("DELETE post", userId, postId, code, message)
  IN  /\ backend = "sql"
      /\ UNCHANGED <<nonContentVars, backend, nextPostId, comments, nextCommentId, likes>>
      /\ IF OwnPost(postId, userId) = {}
           THEN res' = reply(404, "Post not found or not authorized") /\ UNCHANGED posts
           ELSE /\ posts' = {IF p.id = postId THEN [p EXCEPT !.is_active = FALSE] ELSE p : p \in posts}
                /\ res' = reply(200, "Post deleted successfully")

\* SELECT id FROM likes WHERE post_id = ? AND user_id = ?
ExistingLikes(postId, userId) == {l \in likes : l.post_id = postId /\ l.user_id = userId}

\* SQL POST /posts/:id/like
SqlLikePost(userId, postId) ==
  LET reply(code, message) == Response("POST like", userId, postId, code, message)
  IN  /\ backend = "sql"
      /\ UNCHANGED <<nonContentVars, backend, posts, nextPostId, comments, nextCommentId>>
      /\ IF ActivePost(postId) = {}
           THEN res' = reply(404, "Post not found") /\ UNCHANGED likes
           ELSE IF ExistingLikes(postId, userId) # {}
             THEN /\ likes' = likes \ ExistingLikes(postId, userId)
                  /\ res' = reply(200, "Post unliked successfully")
             ELSE /\ likes' = likes \cup {[post_id |-> postId, user_id |-> userId]}
                  /\ res' = reply(200, "Post liked successfully")

\* SQL POST /comments
SqlCreateComment(userId, postId, content) ==
  LET reply(code, message) == Response("POST comment", userId, postId, code, message)
  IN  /\ backend = "sql"
      /\ UNCHANGED <<nonContentVars, backend, posts, nextPostId, likes>>
      /\ IF ActivePost(postId) = {}
           THEN res' = reply(404, "Post not found") /\ UNCHANGED <<comments, nextCommentId>>
           ELSE /\ nextCommentId <= MaxCommentId
                /\ comments' = comments \cup {[id |-> nextCommentId, post_id |-> postId, user_id |-> userId,
                                               content |-> content, is_active |-> TRUE]}
                /\ nextCommentId' = nextCommentId + 1
                /\ res' = reply(201, "Comment created successfully")

\* SELECT id FROM comments WHERE id = ? AND user_id = ? AND is_active = 1
OwnComment_Deleted(commentId, userId) == {c \in comments : c.id = commentId /\ c.user_id = userId}

OwnComment(commentId, userId) ==
  {c \in comments : c.id = commentId /\ c.user_id = userId /\ c.is_active}

\* SQL PUT /comments/:id
SqlUpdateComment(userId, commentId, content) ==
  LET reply(code, message) == Response("PUT comment", userId, commentId, code, message)
  IN  /\ backend = "sql"
      /\ UNCHANGED <<nonContentVars, backend, posts, nextPostId, nextCommentId, likes>>
      /\ IF OwnComment(commentId, userId) = {}
           THEN res' = reply(404, "Comment not found or not authorized") /\ UNCHANGED comments
           ELSE /\ comments' = {IF c.id = commentId THEN [c EXCEPT !.content = content] ELSE c : c \in comments}
                /\ res' = reply(200, "Comment updated successfully")

\* SQL DELETE /comments/:id: UPDATE comments SET is_active = 0 WHERE id = ?
SqlDeleteComment(userId, commentId) ==
  LET reply(code, message) == Response("DELETE comment", userId, commentId, code, message)
  IN  /\ backend = "sql"
      /\ UNCHANGED <<nonContentVars, backend, posts, nextPostId, nextCommentId, likes>>
      /\ IF OwnComment(commentId, userId) = {}
           THEN res' = reply(404, "Comment not found or not authorized") /\ UNCHANGED comments
           ELSE /\ comments' = {IF c.id = commentId THEN [c EXCEPT !.is_active = FALSE] ELSE c : c \in comments}
                /\ res' = reply(200, "Comment deleted successfully")

\* SQL GET /posts: the rows of WHERE p.is_active = 1, over all pages
SqlGetPosts_All == posts

SqlGetPosts == {p \in posts : p.is_active}

\* SQL GET /posts/:id: the status and the row sent
SqlGetPost(postId) ==
  IF ActivePost(postId) = {} THEN {[code |-> 404, data |-> {}]}
  ELSE {[code |-> 200, data |-> {p}] : p \in ActivePost(postId)}

\* SQL GET /comments/post/:postId: the rows of
\* WHERE c.post_id = ? AND c.is_active = 1, over all pages
SqlGetComments(postId) == {c \in comments : c.post_id = postId /\ c.is_active}

\* Math.max
Max(a, b) == IF a > b THEN a ELSE b

\* db.insert('likes', { user_id, post_id })
InsertLike(userId, postId) ==
  /\ nextLikeId <= MaxRowId
  /\ likes' = likes \cup {[id |-> nextLikeId, post_id |-> postId, user_id |-> userId]}
  /\ nextLikeId' = nextLikeId + 1

\* db.update('posts', postId, { likes_count: value })
UpdateLikesCount(postId, value) == counts' = [counts EXCEPT ![postId].likes_count = value]

\* db.update('posts', postId, { comments_count: value })
UpdateCommentsCount(postId, value) == counts' = [counts EXCEPT ![postId].comments_count = value]

\* db.insert('comments', { post_id, user_id, content, likes_count: 0 })
InsertComment(userId, postId, content) ==
  /\ nextCommentId <= MaxRowId
  /\ comments' = comments \cup {[id |-> nextCommentId, post_id |-> postId, user_id |-> userId,
                                  content |-> content]}
  /\ nextCommentId' = nextCommentId + 1

\* BaaS POST /posts/:id/like: the unlike branch queries the likes table a
\* second time and lowers the counter
LikePost(userId, postId) ==
  LET reply(code, message) == Response("POST like", userId, postId, code, message)
  IN  /\ backend = "baas"
      /\ UNCHANGED <<socialVars, uploadVars, accountVars, groupVars, call, backend, posts, nextPostId, comments, nextCommentId>>
      /\ IF FindPost(postId) = {}
           THEN res' = reply(404, "Post not found") /\ UNCHANGED <<likes, countVars>>
           ELSE IF ExistingLikes(postId, userId) # {}
             THEN /\ UNCHANGED <<likes, nextLikeId>>
                  /\ UpdateLikesCount(postId, Max(0, counts[postId].likes_count - 1))
                  /\ res' = reply(200, "Post unliked")
             ELSE /\ InsertLike(userId, postId)
                  /\ UpdateLikesCount(postId, counts[postId].likes_count + 1)
                  /\ res' = reply(200, "Post liked")

\* BaaS POST /posts/:id/comments
AddComment(userId, postId, content) ==
  LET reply(code, message) == Response("POST comment", userId, postId, code, message)
  IN  /\ backend = "baas"
      /\ UNCHANGED <<socialVars, uploadVars, accountVars, groupVars, call, backend, posts, nextPostId, likes, nextLikeId>>
      /\ IF FindPost(postId) = {}
           THEN res' = reply(404, "Post not found") /\ UNCHANGED <<comments, nextCommentId, counts>>
           ELSE /\ InsertComment(userId, postId, content)
                /\ UpdateCommentsCount(postId, counts[postId].comments_count + 1)
                /\ res' = reply(201, "Comment added successfully")

\* ------------------------------------------------------------------------
\* User objects in responses, password reset (src/unnamed/part_004,
\* src/unnamed/part_005, src/routes/users.js)
\* ------------------------------------------------------------------------

MaxTokens == 2

MaxHours == 2

\* 3600000 ms
Hour == 3600000

\* delete object.field
Delete(object, field) == [f \in DOMAIN object \ {field} |-> object[f]]

\* the user objects of the response sent
Sent(objects) == call' = [pc |-> "sent", objects |-> objects]

\* BaaS GET /posts/:id: the post with its author, the users row without
\* password_hash
GetPostAuthor(postId) ==
  /\ backend = "baas"
  /\ IF FindPost(postId) = {}
       THEN res' = Response("GET post", Anonymous, postId, 404, "Post not found") /\ Sent({})
       ELSE \E post \in FindPost(postId) :
              /\ res' = Response("GET post", Anonymous, postId, 200, "")
              /\ Sent({Delete(users[post.user_id], "password_hash")})
  /\ UNCHANGED <<backend, socialVars, contentVars, uploadVars, otherVars>>

\* BaaS GET /users/:id: the users row without password_hash and
\* verification_token
GetUserObject(userId) ==
  /\ backend = "baas"
  /\ IF userId \notin DOMAIN users
       THEN res' = Response("GET user", Anonymous, userId, 404, "User not found") /\ Sent({})
       ELSE /\ res' = Response("GET user", Anonymous, userId, 200, "")
            /\ Sent({Delete(Delete(users[userId], "password_hash"), "verification_token")})
  /\ UNCHANGED <<backend, socialVars, contentVars, uploadVars, otherVars>>

\* db.findByField('users', 'verification_token', token)
FindByToken(token) == {id \in DOMAIN users : users[id].verification_token = token}

\* POST /auth/forgot-password for the email of userId: the token is stored,
\* resetTokenExpiry is computed and stored nowhere
ForgotPassword(userId) ==
  /\ backend = "baas"
  /\ res' = Response("POST forgot-password", Anonymous, userId, 200,
                     "If the email exists, a password reset link has been sent")
  /\ IF userId \notin DOMAIN users
       THEN UNCHANGED accountVars
       ELSE /\ nextToken <= MaxTokens
            /\ users' = [users EXCEPT ![userId].verification_token = nextToken]
            /\ nextToken' = nextToken + 1
            /\ resetTokenExpiry' = [resetTokenExpiry EXCEPT ![userId] = clock + Hour]
            /\ UNCHANGED clock
  /\ UNCHANGED <<backend, socialVars, contentVars, uploadVars, countVars, groupVars, call>>

\* POST /auth/reset-password; the response records the token presented
ResetPassword(token, newPassword) ==
  LET reply(user, code, message) == Response("POST reset-password", user, token, code, message)
  IN  /\ backend = "baas"
      /\ IF token = Null
           THEN res' = reply(Anonymous, 400, "Token and new password are required") /\ UNCHANGED users
           ELSE IF FindByToken(token) = {}
             THEN res' = reply(Anonymous, 400, "Invalid or expired reset token") /\ UNCHANGED users
             ELSE \E id \in FindByToken(token) :
                    /\ users' = [users EXCEPT ![id].password_hash = Hash(newPassword),
                                              ![id].verification_token = Null]
                    /\ res' = reply(id, 200, "Password reset successfully")
      /\ UNCHANGED <<backend, socialVars, contentVars, uploadVars, countVars, groupVars, call,
                     nextToken, clock, resetTokenExpiry>>

\* half an hour passes
Tick ==
  /\ clock < MaxHours * Hour
  /\ clock' = clock + Hour \div 2
  /\ UNCHANGED <<backend, res, socialVars, contentVars, uploadVars, countVars, groupVars, call,
                 users, nextToken, resetTokenExpiry>>

\* ------------------------------------------------------------------------
\* Groups (src/unnamed/part_001)
\* ------------------------------------------------------------------------

MaxGroupId == 2

MaxMemberId == 4

\* the ids requests name in :id
GroupIds == 1..MaxGroupId

\* INSERT INTO group_members (group_id, user_id, role, joined_at) VALUES (?, ?, ?, NOW())
InsertMember(groupId, userId, role) ==
  /\ nextMemberId <= MaxMemberId
  /\ group_members' = group_members \cup
       {[id |-> nextMemberId, group_id |-> groupId, user_id |-> userId, role |-> role]}
  /\ nextMemberId' = nextMemberId + 1

\* POST /groups: the group, then its creator as a member with role admin
CreateGroup(userId) ==
  /\ backend = "sql"
  /\ nextGroupId <= MaxGroupId
  /\ groups' = groups \cup {[id |-> nextGroupId, creator_id |-> userId, is_active |-> TRUE]}
  /\ nextGroupId' = nextGroupId + 1
  /\ InsertMember(nextGroupId, userId, "admin")
  /\ res' = Response("POST group", userId, nextGroupId, 201, "Group created successfully")
  /\ UNCHANGED <<backend, socialVars, contentVars, uploadVars, countVars, accountVars, call>>

\* SELECT ... FROM groups WHERE id = ? AND is_active = 1
ActiveGroup(groupId) == {g \in groups : g.id = groupId /\ g.is_active}

\* SELECT id FROM group_members WHERE group_id = ? AND user_id = ?
ExistingMembership_None(groupId, userId) == {}

ExistingMembership(groupId, userId) ==
  {m \in group_members : m.group_id = groupId /\ m.user_id = userId}

\* POST /groups/:id/join
JoinGroup(userId, groupId) ==
  LET reply(code, message) == Response("POST join", userId, groupId, code, message)
      refuse(code, message) == res' = reply(code, message) /\ UNCHANGED <<group_members, nextMemberId>>
  IN  /\ backend = "sql"
      /\ UNCHANGED <<backend, socialVars, contentVars, uploadVars, countVars, accountVars, call,
                     groups, nextGroupId>>
      /\ IF ActiveGroup(groupId) = {} THEN refuse(404, "Group not found")
         ELSE IF ExistingMembership(groupId, userId) # {} THEN refuse(400, "Already a member of this group")
         ELSE InsertMember(groupId, userId, "member") /\ res' = reply(200, "Joined group successfully")

\* DELETE /groups/:id/join
LeaveGroup(userId, groupId) ==
  LET reply(code, message) == Response("DELETE join", userId, groupId, code, message)
      refuse(code, message) == res' = reply(code, message) /\ UNCHANGED group_members
      affectedRows == Cardinality(ExistingMembership(groupId, userId))
  IN  /\ backend = "sql"
      /\ UNCHANGED <<backend, socialVars, contentVars, uploadVars, countVars, accountVars, call,
                     groups, nextGroupId, nextMemberId>>
      /\ IF ActiveGroup(groupId) = {} THEN refuse(404, "Group not found")
         ELSE IF \E group \in ActiveGroup(groupId) : group.creator_id = userId
           THEN refuse(400, "Group creator cannot leave the group")
         ELSE /\ group_members' = {m \in group_members : ~(m.group_id = groupId /\ m.user_id = userId)}
              /\ res' = IF affectedRows = 0 THEN reply(400, "Not a member of this group")
                                           ELSE reply(200, "Left group successfully")

\* ------------------------------------------------------------------------
\* User search (src/routes/users.js)
\* ------------------------------------------------------------------------

\* users.username, as a sequence of characters
Username(id) == CASE id = 3 -> <<"a">> [] id = 7 -> <<"b">> [] OTHER -> <<"a", "b">>

\* the rows of SELECT id, username, ... FROM users
UserRows == {[id |-> id, username |-> Username(id)] : id \in Users}

\* a string of 101 characters
LongString == [i \in 1..101 |-> "a"]

\* req.query.q: absent, or the string given
NoQuery == [given |-> FALSE, value |-> <<>>]

Queries ==
  {NoQuery} \cup {[given |-> TRUE, value |-> v] :
                    v \in {<<>>, <<" ">>, <<"a">>, <<" ", "a", " ">>, <<"b">>, <<"a", "b">>, <<"c">>, LongString}}

\* trim(): whitespace off both ends
RECURSIVE TrimStart(_)
TrimStart(s) == IF s # <<>> /\ s[1] = " " THEN TrimStart(Tail(s)) ELSE s

RECURSIVE TrimEnd(_)
TrimEnd(s) == IF s # <<>> /\ s[Len(s)] = " " THEN TrimEnd(SubSeq(s, 1, Len(s) - 1)) ELSE s

Trim(s) == TrimEnd(TrimStart(s))

\* the string express-validator validates: '' for a parameter that is absent
toString(q) == IF q.given THEN q.value ELSE <<>>

\* query('q').trim().isLength({ min: 1, max: 100 }), with no optional()
validateSearch(q) == Len(Trim(toString(q))) \in 1..100

\* GET /users: both validations, then the page of users, filtered by
\* username when the trimmed q is not empty. The response records the query.
GetUsers(q, queryPage, queryLimit) ==
  LET searchQuery == Trim(toString(q))
      limit == ParseOr(queryLimit, 10)
      offset == (ParseOr(queryPage, 1) - 1) * limit
      rows == IF searchQuery # <<>> THEN {u \in UserRows : u.username = searchQuery} ELSE UserRows
      sent(objects) == call' = [pc |-> "sent", q |-> q, queryPage |-> queryPage, queryLimit |-> queryLimit,
                                objects |-> objects]
  IN  /\ backend = "baas"
      /\ IF ~validatePagination(queryPage, queryLimit) \/ ~validateSearch(q)
           THEN res' = Response("GET users", Anonymous, NaN, 400, "Validation failed") /\ sent({})
           ELSE /\ res' = Response("GET users", Anonymous, NaN, 200, "")
                /\ \E page \in Pages(rows, limit, offset) : sent(page)
      /\ UNCHANGED <<backend, socialVars, contentVars, uploadVars, otherVars>>

\* ------------------------------------------------------------------------
\* Uploads (src/routes/upload.js)
\* ------------------------------------------------------------------------

MaxUploads == 2

DefaultMaxFileSize == 10485760

\* limits.fileSize: parseInt(process.env.MAX_FILE_SIZE) || 10 * 1024 * 1024
FileSizeLimit == ParseOr(maxFileSize, DefaultMaxFileSize)

\* the environments the server may start in
MaxFileSizes == {Undefined, 5}

\* the sizes of the files clients send
FileSizes == {5, 6, DefaultMaxFileSize, DefaultMaxFileSize + 1}

\* fileFilter
allowedTypes == {"image/jpeg", "image/png", "image/gif", "image/webp"}

\* the mimetypes of the files clients send
MimeTypes == {"image/png", "text/plain"}

\* req.user.id of the upload requests
Uploader == 3

\* the names of the files of upload uuid: the file multer stores, and
\* the processed_, thumb_ and avatar_ files made from it
FileName(prefix, uuid) == [prefix |-> prefix, uuid |-> uuid]

Reply(route, uuid, code, message) == Response(route, Uploader, uuid, code, message)

\* upload.single(field) on a request without that file: the handler answers 400
NoFile(route) ==
  /\ upload = Idle
  /\ res' = Reply(route, 0, 400, IF route = "POST image" THEN "No image file provided"
                                                          ELSE "No avatar file provided")
  /\ UNCHANGED <<nonUploadVars, uploadVars>>

\* upload.single(field) on a file fileFilter refuses: nothing is stored and
\* the router's error middleware answers 400 with the error's message
InvalidFileType(route, mimetype) ==
  /\ upload = Idle
  /\ mimetype \notin allowedTypes
  /\ res' = Reply(route, 0, 400, "Invalid file type. Only JPEG, PNG, GIF, and WebP images are allowed.")
  /\ UNCHANGED <<nonUploadVars, uploadVars>>

\* upload.single(field): diskStorage streams the file to uploads/<uuid><ext>
\* until the stream ends or reaches limits.fileSize
StoreFile(route, mimetype, size) ==
  /\ upload = Idle
  /\ mimetype \in allowedTypes
  /\ nextUuid <= MaxUploads
  /\ files' = files \cup {FileName("", nextUuid)}
  /\ nextUuid' = nextUuid + 1
  /\ upload' = [pc |-> "stored", route |-> route, uuid |-> nextUuid, size |-> size]
  /\ UNCHANGED <<nonUploadVars, res, maxFileSize, avatar>>

\* multer removing the files it stored for a request it aborts
RemoveUploadedFiles_Kept(uuid) == files

RemoveUploadedFiles(uuid) == files \ {FileName("", uuid)}

\* the end of upload.single(field): a file over the limit aborts the request
\* with LIMIT_FILE_SIZE, which the router's error middleware answers; any
\* other file becomes req.file and the handler runs
EndOfFile ==
  /\ upload.pc = "stored"
  /\ IF upload.size > FileSizeLimit
       THEN /\ files' = RemoveUploadedFiles(upload.uuid)
            /\ res' = Reply(upload.route, upload.uuid, 400, "File too large")
            /\ upload' = Idle
       ELSE /\ upload' = [upload EXCEPT !.pc = "sharp", !.size = 0]
            /\ UNCHANGED <<files, res>>
  /\ UNCHANGED <<nonUploadVars, maxFileSize, nextUuid, avatar>>

\* the catch block of both handlers: unlink req.file.path if it exists, 500
Catch(message) ==
  /\ files' = files \ {FileName("", upload.uuid)}
  /\ res' = Reply(upload.route, upload.uuid, 500, message)
  /\ upload' = Idle

\* sharp(originalPath).resize(...).jpeg(...).toFile(processedPath); a failed
\* sharp writes no file
Process(ok) ==
  /\ upload.pc = "sharp"
  /\ IF ok
       THEN /\ files' = files \cup {FileName(IF upload.route = "POST image" THEN "processed_" ELSE "avatar_",
                                             upload.uuid)}
            /\ upload' = [upload EXCEPT !.pc = "unlink"]
            /\ UNCHANGED res
       ELSE Catch(IF upload.route = "POST image" THEN "Error uploading image" ELSE "Error uploading avatar")
  /\ UNCHANGED <<nonUploadVars, maxFileSize, nextUuid, avatar>>

\* fs.unlinkSync(originalPath)
DeleteOriginal ==
  /\ upload.pc = "unlink"
  /\ files' = files \ {FileName("", upload.uuid)}
  /\ upload' = [upload EXCEPT !.pc = IF upload.route = "POST image" THEN "thumbnail" ELSE "query"]
  /\ UNCHANGED <<nonUploadVars, res, maxFileSize, nextUuid, avatar>>

\* POST /upload/image: sharp(processedPath).resize(200, 200).toFile(thumbnailPath)
Thumbnail(ok) ==
  /\ upload.pc = "thumbnail"
  /\ IF ok
       THEN /\ files' = files \cup {FileName("thumb_", upload.uuid)}
            /\ res' = Reply(upload.route, upload.uuid, 200, "Image uploaded successfully")
            /\ upload' = Idle
       ELSE Catch("Error uploading image")
  /\ UNCHANGED <<nonUploadVars, maxFileSize, nextUuid, avatar>>

\* POST /upload/avatar: UPDATE users SET avatar = ? WHERE id = ?
UpdateAvatar(ok) ==
  /\ upload.pc = "query"
  /\ IF ok
       THEN /\ avatar' = FileName("avatar_", upload.uuid)
            /\ res' = Reply(upload.route, upload.uuid, 200, "Avatar uploaded successfully")
            /\ upload' = Idle
            /\ UNCHANGED files
       ELSE Catch("Error uploading avatar") /\ UNCHANGED avatar
  /\ UNCHANGED <<nonUploadVars, maxFileSize, nextUuid>>

\* `thumb_${filename}`
ThumbnailOf(filename) == FileName("thumb_" \o filename.prefix, filename.uuid)

\* DELETE /upload/:filename
DeleteFile(filename) ==
  LET reply(code, message) == Reply("DELETE file", filename.uuid, code, message)
  IN  /\ upload = Idle
      /\ IF filename \notin files
           THEN res' = reply(404, "File not found") /\ UNCHANGED files
           ELSE /\ files' = (files \ {filename}) \ {ThumbnailOf(filename)}
                /\ res' = reply(200, "File deleted successfully")
      /\ UNCHANGED <<nonUploadVars, maxFileSize, nextUuid, upload, avatar>>

UploadRoutes == {"POST image", "POST avatar"}

\* ------------------------------------------------------------------------
\* Authentication middleware (src/unnamed/part_007)
\* ------------------------------------------------------------------------

\* no token: a header, cookie or session without one
NoToken == [id |-> Anonymous, signed |-> FALSE]

\* the tokens clients send: the id of their payload, and whether
\* jwt.verify accepts them (signed with JWT_SECRET and not expired); 99 is
\* the id of no user
Tokens == {[id |-> 3, signed |-> TRUE], [id |-> 7, signed |-> TRUE], [id |-> 37, signed |-> TRUE],
           [id |-> 99, signed |-> TRUE], [id |-> 3, signed |-> FALSE]}

\* the Authorization headers clients send: none, 'Bearer <token>',
\* 'Bearer' alone, 'Basic <token>'
Authorizations ==
  {[scheme |-> "", token |-> NoToken]}
    \cup {[scheme |-> "Bearer", token |-> t] : t \in Tokens \cup {NoToken}}
    \cup {[scheme |-> "Basic", token |-> t] : t \in {[id |-> 3, signed |-> TRUE]}}

\* the token protect uses: headers.authorization.split(' ')[1] when the
\* header starts with 'Bearer', else cookies.token, else session.token
FindToken_CookieFirst(authorization, cookie, session) ==
  IF cookie # NoToken THEN cookie
  ELSE IF authorization.scheme = "Bearer" /\ authorization.token # NoToken THEN authorization.token
  ELSE session

FindToken(authorization, cookie, session) ==
  LET header == IF authorization.scheme = "Bearer" THEN authorization.token ELSE NoToken
      orCookie == IF header = NoToken /\ cookie # NoToken THEN cookie ELSE header
  IN  IF orCookie = NoToken /\ session # NoToken THEN session ELSE orCookie

\* a request reaches a protected route
Receive(authorization, cookie, session) ==
  /\ call.pc \in {"idle", "done"}
  /\ call' = [pc |-> "protect", authorization |-> authorization, cookie |-> cookie, session |-> session,
              user |-> Anonymous, code |-> 0, message |-> ""]
  /\ UNCHANGED tables

\* protect
Protect ==
  LET token == FindToken(call.authorization, call.cookie, call.session)
      deny(message) == call' = [call EXCEPT !.pc = "done", !.code = 401, !.message = message]
  IN  /\ call.pc = "protect"
      /\ UNCHANGED tables
      /\ IF token = NoToken THEN deny("Not authorized to access this route")
         ELSE IF ~token.signed THEN deny("Not authorized to access this route")
         ELSE IF token.id \notin ActiveUsers THEN deny("User not found or inactive")
         ELSE call' = [call EXCEPT !.pc = "handler", !.user = token.id]

\* the route's handler, after next()
Handler ==
  /\ call.pc = "handler"
  /\ call' = [call EXCEPT !.pc = "done", !.code = 200]
  /\ UNCHANGED tables

\* ------------------------------------------------------------------------
\* Pagination of the list endpoints
\* ------------------------------------------------------------------------

\* the list endpoints: the BaaS routes run validatePagination before the
\* handler, the SQL routes do not; fallback is the limit the handler uses
\* when parseInt(req.query.limit) is falsy
ListEndpoints ==
  {[route |-> r, validated |-> TRUE, fallback |-> 10] :
     r \in {"baas GET /users", "baas GET /users/:id/posts", "baas GET /users/:id/friends",
            "baas GET /posts", "baas GET /posts/:id/comments"}}
  \cup {[route |-> r, validated |-> FALSE, fallback |-> 10] :
     r \in {"sql GET /posts", "sql GET /users", "sql GET /users/:id/followers",
            "sql GET /users/:id/following", "sql GET /comments/post/:postId",
            "sql GET /groups", "sql GET /groups/:id/members"}}
  \cup {[route |-> "sql GET /notifications", validated |-> FALSE, fallback |-> 20]}

\* the page and limit query parameters clients send
QueryPages == {Undefined, 1, 2}

QueryLimits == {Undefined, 0, 1, 10, 100, 101, 1000}

\* a list request: validation where the route has it, then
\* page = parseInt(req.query.page) || 1, limit = parseInt(req.query.limit) || fallback,
\* which go into the database query
List(endpoint, queryPage, queryLimit) ==
  /\ call' = IF endpoint.validated /\ ~validatePagination(queryPage, queryLimit)
               THEN [pc |-> "listed", route |-> endpoint.route, queryPage |-> queryPage,
                     queryLimit |-> queryLimit, code |-> 400, page |-> NaN, limit |-> NaN]
               ELSE [pc |-> "listed", route |-> endpoint.route, queryPage |-> queryPage,
                     queryLimit |-> queryLimit, code |-> 200,
                     page |-> ParseOr(queryPage, 1), limit |-> ParseOr(queryLimit, endpoint.fallback)]
  /\ UNCHANGED tables

\* ------------------------------------------------------------------------
\* Error handler (src/unnamed/part_008)
\* ------------------------------------------------------------------------

\* the errors handed to the handler: code, name, status, statusCode and
\* message, Undefined or "" where the error has none
ErrorCodes == {"", "ER_DUP_ENTRY", "ER_NO_REFERENCED_ROW_2", "ER_ROW_IS_REFERENCED_2",
               "ER_BAD_FIELD_ERROR", "LIMIT_FILE_SIZE", "LIMIT_UNEXPECTED_FILE"}

ErrorNames == {"Error", "ValidationError", "CastError", "JsonWebTokenError", "TokenExpiredError"}

Errors ==
  [code : ErrorCodes, name : ErrorNames, status : {Undefined, 429}, statusCode : {Undefined, 403},
   message : {"", "connect ECONNREFUSED"}]

\* a || b on status codes
OrElse(a, b) == IF a = Undefined \/ a = 0 THEN b ELSE a

\* errorHandler: each test that matches replaces error, the last one wins
errorHandler_Default(err) == [statusCode |-> 500, message |-> "Server Error"]

errorHandler(err) ==
  LET copy == [message |-> err.message, statusCode |-> err.statusCode]
      dup == IF err.code = "ER_DUP_ENTRY"
               THEN [message |-> "Duplicate field value entered", statusCode |-> 400] ELSE copy
      noRef == IF err.code = "ER_NO_REFERENCED_ROW_2"
                 THEN [message |-> "Referenced record does not exist", statusCode |-> 400] ELSE dup
      isRef == IF err.code = "ER_ROW_IS_REFERENCED_2"
                 THEN [message |-> "Cannot delete record as it is referenced by other records",
                       statusCode |-> 400] ELSE noRef
      validation == IF err.name = "ValidationError"
                      THEN [message |-> "validation messages", statusCode |-> 400] ELSE isRef
      cast == IF err.name = "CastError"
                THEN [message |-> "Resource not found", statusCode |-> 404] ELSE validation
      jwt == IF err.name = "JsonWebTokenError"
               THEN [message |-> "Invalid token", statusCode |-> 401] ELSE cast
      expired == IF err.name = "TokenExpiredError"
                   THEN [message |-> "Token expired", statusCode |-> 401] ELSE jwt
      fileSize == IF err.code = "LIMIT_FILE_SIZE"
                    THEN [message |-> "File too large", statusCode |-> 400] ELSE expired
      fileField == IF err.code = "LIMIT_UNEXPECTED_FILE"
                     THEN [message |-> "Unexpected file field", statusCode |-> 400] ELSE fileSize
      error == IF err.status = 429
                 THEN [message |-> "Too many requests, please try again later", statusCode |-> 429]
                 ELSE fileField
  IN  [statusCode |-> OrElse(error.statusCode, OrElse(err.statusCode, 500)),
       message |-> IF error.message = "" THEN "Server Error" ELSE error.message]

\* express hands an error to the handler, which answers it
HandleError(err) ==
  /\ call' = [pc |-> "handled", err |-> err, res |-> errorHandler(err)]
  /\ UNCHANGED tables

\* ------------------------------------------------------------------------
\* Requests served concurrently: each await of a handler is a step
\* ------------------------------------------------------------------------

\* the requests in flight
Slots == {1, 2}

IdleRequest == [route |-> "", user |-> Anonymous, target |-> Anonymous, pc |-> "idle", code |-> 0]

\* the requests being served, by slot
Requests == IF call.pc = "serving" THEN call.reqs ELSE [i \in Slots |-> IdleRequest]

\* slot i moves on to pc with status code
Goto(i, pc, code) ==
  call' = [pc |-> "serving", reqs |-> [Requests EXCEPT ![i].pc = pc, ![i].code = code]]

\* whether the tables refuse a second row for the pair the handlers check
HasUniqueKey == FALSE

\* a friend request or a follow request arrives, :id a valid id
Arrive(i, route, user, target) ==
  /\ Requests[i].pc \in {"idle", "done"}
  /\ backend = IF route = "POST friend-request" THEN "baas" ELSE "sql"
  /\ call' = [pc |-> "serving",
              reqs |-> [Requests EXCEPT ![i] = [route |-> route, user |-> user, target |-> target,
                                                pc |-> "check", code |-> 0]]]
  /\ UNCHANGED tables

\* POST /users/:id/friend-request up to the existence check
CheckFriendship(i) ==
  LET req == Requests[i]
  IN  /\ req.pc = "check" /\ req.route = "POST friend-request"
      /\ UNCHANGED tables
      /\ IF req.target = req.user THEN Goto(i, "done", 400)
         ELSE IF req.target \notin Users THEN Goto(i, "done", 404)
         ELSE IF \E f \in ExistingFriendship(req.user, req.target) :
                   f.status \in {"pending", "accepted", "blocked"} THEN Goto(i, "done", 400)
         ELSE Goto(i, "insert", 0)

\* POST /users/:id/friend-request from db.insert on
CreateFriendship(i) ==
  LET req == Requests[i]
  IN  /\ req.pc = "insert" /\ req.route = "POST friend-request"
      /\ UNCHANGED <<contentVars, uploadVars, otherVars, backend, res, followers, nextFollowerId, prev>>
      /\ IF HasUniqueKey /\ ExistingFriendship(req.user, req.target) # {}
           THEN Goto(i, "done", 500) /\ UNCHANGED <<friendships, nextFriendshipId>>
           ELSE InsertFriendRequest(req.user, req.target) /\ Goto(i, "done", 201)

\* POST /users/:id/follow up to the existence check
CheckFollow(i) ==
  LET req == Requests[i]
  IN  /\ req.pc = "check" /\ req.route = "POST follow"
      /\ UNCHANGED tables
      /\ IF req.target = req.user THEN Goto(i, "done", 400)
         ELSE IF req.target \notin ActiveUsers THEN Goto(i, "done", 404)
         ELSE IF FollowRows(req.user, req.target) # {} THEN Goto(i, "done", 400)
         ELSE Goto(i, "insert", 0)

\* POST /users/:id/follow from the INSERT on
CreateFollower(i) ==
  LET req == Requests[i]
  IN  /\ req.pc = "insert" /\ req.route = "POST follow"
      /\ UNCHANGED <<contentVars, uploadVars, otherVars, backend, res, friendships, nextFriendshipId, prev>>
      /\ IF HasUniqueKey /\ FollowRows(req.user, req.target) # {}
           THEN Goto(i, "done", 500) /\ UNCHANGED <<followers, nextFollowerId>>
           ELSE InsertFollower(req.user, req.target) /\ Goto(i, "done", 200)

\* the action field of the respond request's body
Actions == {"accept", "reject", "ignore"}

\* readings of the clock (new Date()); a timestamp is never Null
Times == {1}

Next ==
  \/ \E u \in ActiveUsers, id \in IdParams : SendFriendRequest(u, id)
  \/ \E u \in ActiveUsers, id \in IdParams, action \in Actions, now \in Times : RespondFriendRequest(u, id, action, now)
  \/ \E u \in ActiveUsers, id \in IdParams : RemoveFriend(u, id)
  \/ \E u \in ActiveUsers, id \in IdParams : FollowUser(u, id)
  \/ \E u \in ActiveUsers, id \in IdParams : UnfollowUser(u, id)

Spec == Init /\ [][Next]_vars

\* the posts and comments routes
NextPosts ==
  \/ \E u \in BaasCallers, c \in NewContents : CreatePost(u, c)
  \/ \E u \in BaasCallers, id \in PostIds, c \in Edits : UpdatePost(u, id, c)
  \/ \E u \in BaasCallers, id \in PostIds : DeletePost(u, id)
  \/ \E u \in SqlAuthors, c \in NewContents : SqlCreatePost(u, c)
  \/ \E u \in SqlCallers, id \in PostIds, c \in Edits : SqlUpdatePost(u, id, c)
  \/ \E u \in SqlCallers, id \in PostIds : SqlDeletePost(u, id)
  \/ \E u \in SqlLikers, id \in PostIds : SqlLikePost(u, id)
  \/ \E u \in SqlAuthors, id \in PostIds, c \in NewContents : SqlCreateComment(u, id, c)
  \/ \E u \in SqlCallers, id \in CommentIds, c \in Edits : SqlUpdateComment(u, id, c)
  \/ \E u \in SqlCallers, id \in CommentIds : SqlDeleteComment(u, id)

\* the tables start empty
InitPosts == Init /\ friendships = {}

SpecPosts == InitPosts /\ [][NextPosts]_vars

\* who likes and comments
Likers == ActiveUsers

\* the like and comment routes of both implementations, one request at a time
NextLikes ==
  \/ \E u \in SqlAuthors, c \in NewContents : CreatePost(u, c)
  \/ \E u \in Likers, id \in PostIds : LikePost(u, id)
  \/ \E u \in Likers, id \in PostIds, c \in NewContents : AddComment(u, id, c)
  \/ \E u \in SqlAuthors, c \in NewContents : SqlCreatePost(u, c)
  \/ \E u \in Likers, id \in PostIds : SqlLikePost(u, id)

SpecLikes == InitPosts /\ [][NextLikes]_vars

\* the upload routes, one request at a time
NextUpload ==
  \/ \E route \in UploadRoutes : NoFile(route)
  \/ \E route \in UploadRoutes, mimetype \in MimeTypes : InvalidFileType(route, mimetype)
  \/ \E route \in UploadRoutes, mimetype \in MimeTypes, size \in FileSizes : StoreFile(route, mimetype, size)
  \/ EndOfFile
  \/ \E ok \in BOOLEAN : Process(ok)
  \/ DeleteOriginal
  \/ \E ok \in BOOLEAN : Thumbnail(ok)
  \/ \E ok \in BOOLEAN : UpdateAvatar(ok)

\* the uploads directory starts empty, under either environment
InitUpload ==
  /\ backend = "sql"
  /\ friendships = {} /\ nextFriendshipId = 1
  /\ followers = {} /\ nextFollowerId = 1
  /\ res = NoResponse /\ prev = NoResponse
  /\ posts = {} /\ nextPostId = 1
  /\ comments = {} /\ nextCommentId = 1
  /\ likes = {}
  /\ maxFileSize \in MaxFileSizes
  /\ files = {} /\ nextUuid = 1
  /\ upload = Idle
  /\ avatar = Null
  /\ InitOther
  /\ call = NoCall

SpecUpload == InitUpload /\ [][NextUpload]_vars

\* the names a delete request may give: those of the files the upload routes make
Filenames == {FileName(prefix, uuid) : prefix \in {"", "processed_", "thumb_", "avatar_"}, uuid \in 1..MaxUploads}

\* the upload routes and the delete route, one request at a time
NextFiles ==
  \/ NextUpload
  \/ \E filename \in Filenames : DeleteFile(filename)

SpecFiles == InitUpload /\ [][NextFiles]_vars

\* requests to a protected route, one at a time
NextAuth ==
  \/ \E authorization \in Authorizations, cookie \in Tokens \cup {NoToken}, session \in Tokens \cup {NoToken} :
       Receive(authorization, cookie, session)
  \/ Protect
  \/ Handler

\* the SQL implementation, its tables empty
InitSql == Init /\ backend = "sql" /\ friendships = {}

SpecAuth == InitSql /\ [][NextAuth]_vars

\* list requests to either implementation
NextLists ==
  \E endpoint \in ListEndpoints, queryPage \in QueryPages, queryLimit \in QueryLimits :
    List(endpoint, queryPage, queryLimit)

SpecLists == InitSql /\ [][NextLists]_vars

\* errors reaching the handler
NextErrors == \E err \in Errors : HandleError(err)

SpecErrors == InitSql /\ [][NextErrors]_vars

\* friend requests and follow requests, two at a time, their steps interleaved
NextRace ==
  \/ \E i \in Slots, route \in {"POST friend-request", "POST follow"}, u \in ActiveUsers, id \in Users :
       Arrive(i, route, u, id)
  \/ \E i \in Slots : CheckFriendship(i)
  \/ \E i \in Slots : CreateFriendship(i)
  \/ \E i \in Slots : CheckFollow(i)
  \/ \E i \in Slots : CreateFollower(i)

SpecRace == InitPosts /\ [][NextRace]_vars

\* ------------------------------------------------------------------------
\* BaaS like and comment requests in flight (src/unnamed/part_004), by await
\* ------------------------------------------------------------------------

\* a like or comment request: post is the row that findById returned
IdleLike == [route |-> "", user |-> Anonymous, target |-> Null, pc |-> "idle", code |-> 0,
             post |-> [likes_count |-> 0, comments_count |-> 0]]

\* the like and comment requests being served, by slot
Likings == IF call.pc = "liking" THEN call.reqs ELSE [i \in Slots |-> IdleLike]

\* slot i moves on to pc with status code
Continue(i, pc, code) ==
  call' = [pc |-> "liking", reqs |-> [Likings EXCEPT ![i].pc = pc, ![i].code = code]]

\* a like or a comment request arrives, :id a valid id
ArriveLike(i, route, user, target) ==
  /\ Likings[i].pc = "idle"
  /\ backend = "baas"
  /\ call' = [pc |-> "liking",
              reqs |-> [Likings EXCEPT ![i] = [IdleLike EXCEPT !.route = route, !.user = user,
                                                               !.target = target, !.pc = "findById"]]]
  /\ UNCHANGED tables

\* const post = await db.findById('posts', postId)
FindById(i) ==
  LET r == Likings[i]
  IN  /\ r.pc = "findById"
      /\ UNCHANGED tables
      /\ IF FindPost(r.target) = {}
           THEN Continue(i, "done", 404)
           ELSE call' = [pc |-> "liking",
                         reqs |-> [Likings EXCEPT ![i].post = counts[r.target],
                                                  ![i].pc = IF r.route = "POST like" THEN "existingLike"
                                                                                     ELSE "insert"]]

\* const existingLike = await db.query('likes', { where })
QueryExistingLike(i) ==
  LET r == Likings[i]
  IN  /\ r.pc = "existingLike"
      /\ UNCHANGED tables
      /\ Continue(i, IF ExistingLikes(r.target, r.user) # {} THEN "query" ELSE "insert", 0)

\* the unlike branch: await db.query('likes', { where })
QueryAgain(i) ==
  /\ Likings[i].pc = "query"
  /\ UNCHANGED tables
  /\ Continue(i, "lower", 0)

\* await db.insert('likes', ...), await db.insert('comments', ...)
Insert(i) ==
  LET r == Likings[i]
  IN  /\ r.pc = "insert"
      /\ Continue(i, "raise", 0)
      /\ UNCHANGED <<socialVars, uploadVars, accountVars, groupVars, backend, res, posts, nextPostId, counts>>
      /\ IF r.route = "POST like"
           THEN InsertLike(r.user, r.target) /\ UNCHANGED <<comments, nextCommentId>>
           ELSE InsertComment(r.user, r.target, "text") /\ UNCHANGED <<likes, nextLikeId>>

\* await db.update('posts', postId, ...) with the counter of the row read
\* at the start, and the response
Update(i) ==
  LET r == Likings[i]
  IN  /\ r.pc \in {"lower", "raise"}
      /\ UNCHANGED <<socialVars, uploadVars, accountVars, groupVars, backend, res, contentVars, nextLikeId>>
      /\ IF r.route = "POST comment"
           THEN UpdateCommentsCount(r.target, r.post.comments_count + 1) /\ Continue(i, "done", 201)
           ELSE /\ UpdateLikesCount(r.target, IF r.pc = "lower" THEN Max(0, r.post.likes_count - 1)
                                                                 ELSE r.post.likes_count + 1)
                /\ Continue(i, "done", 200)

\* two like or comment requests, their steps interleaved
NextLikeRace ==
  \/ \E u \in SqlAuthors, c \in NewContents : CreatePost(u, c)
  \/ \E i \in Slots, route \in {"POST like", "POST comment"}, u \in Likers, id \in PostIds :
       ArriveLike(i, route, u, id)
  \/ \E i \in Slots : FindById(i)
  \/ \E i \in Slots : QueryExistingLike(i)
  \/ \E i \in Slots : QueryAgain(i)
  \/ \E i \in Slots : Insert(i)
  \/ \E i \in Slots : Update(i)

\* the BaaS implementation, its tables empty
InitBaas == InitPosts /\ backend = "baas"

SpecLikeRace == InitBaas /\ [][NextLikeRace]_vars

\* ------------------------------------------------------------------------
\* transaction (src/config/database.js)
\* ------------------------------------------------------------------------

MaxCalls == 2

\* what a callback may write
Works == {1, 2}

\* the database before the first call, and the number of calls made
Database == IF call.pc = "idle" THEN Null ELSE call.database

Calls == IF call.pc = "idle" THEN 0 ELSE call.calls

\* transaction(callback) is called, the callback to write work. tx is the
\* state of the connection's transaction, error the error caught, result
\* what the caller gets: "returned", or the error thrown
Transaction(work) ==
  /\ call.pc \in {"idle", "end"}
  /\ Calls < MaxCalls
  /\ call' = [pc |-> "getConnection", database |-> Database, calls |-> Calls + 1, work |-> work,
              taken |-> FALSE, tx |-> "none", error |-> "", result |-> "", released |-> 0]
  /\ UNCHANGED tables

\* the call goes on to pc
Await(pc) == call' = [call EXCEPT !.pc = pc]

\* an await throws error inside the try block: the catch block is next
Throw(error) == call' = [call EXCEPT !.pc = "rollback", !.error = error]

\* const connection = await pool.getConnection(), outside the try block
GetConnection(ok) ==
  /\ call.pc = "getConnection"
  /\ call' = IF ok THEN [call EXCEPT !.pc = "beginTransaction", !.taken = TRUE]
                   ELSE [call EXCEPT !.pc = "end", !.result = "getConnection"]
  /\ UNCHANGED tables

\* await connection.beginTransaction()
BeginTransaction(ok) ==
  /\ call.pc = "beginTransaction"
  /\ call' = IF ok THEN [call EXCEPT !.pc = "callback", !.tx = "open"]
                   ELSE [call EXCEPT !.pc = "rollback", !.error = "beginTransaction"]
  /\ UNCHANGED tables

\* const result = await callback(connection)
Callback(ok) ==
  /\ call.pc = "callback"
  /\ IF ok THEN Await("commit") ELSE Throw("callback")
  /\ UNCHANGED tables

\* await connection.commit(); return result
Commit(ok) ==
  /\ call.pc = "commit"
  /\ call' = IF ok THEN [call EXCEPT !.pc = "finally", !.tx = "committed", !.database = call.work,
                                       !.result = "returned"]
                   ELSE [call EXCEPT !.pc = "rollback", !.error = "commit"]
  /\ UNCHANGED tables

\* catch (error) { await connection.rollback(); throw error }: a rollback
\* that throws replaces the error caught
Rollback(ok) ==
  /\ call.pc = "rollback"
  /\ call' = IF ok THEN [call EXCEPT !.pc = "finally", !.tx = "rolledback", !.result = call.error]
                   ELSE [call EXCEPT !.pc = "finally", !.result = "rollback"]
  /\ UNCHANGED tables

\* connection.release()
Release_Skipped(connection) == connection

Release(connection) == [connection EXCEPT !.released = connection.released + 1]

\* finally { connection.release() }, then the return or the throw
Finally ==
  /\ call.pc = "finally"
  /\ call' = [Release(call) EXCEPT !.pc = "end"]
  /\ UNCHANGED tables

NextTransaction ==
  \/ \E work \in Works : Transaction(work)
  \/ \E ok \in BOOLEAN : GetConnection(ok)
  \/ \E ok \in BOOLEAN : BeginTransaction(ok)
  \/ \E ok \in BOOLEAN : Callback(ok)
  \/ \E ok \in BOOLEAN : Commit(ok)
  \/ \E ok \in BOOLEAN : Rollback(ok)
  \/ Finally

SpecTransaction == InitSql /\ [][NextTransaction]_vars

\* the groups routes, one request at a time
NextGroups ==
  \/ \E u \in Users : CreateGroup(u)
  \/ \E u \in Users, id \in GroupIds : JoinGroup(u, id)
  \/ \E u \in Users, id \in GroupIds : LeaveGroup(u, id)

SpecGroups == InitSql /\ [][NextGroups]_vars

\* user list requests
NextSearch ==
  \E q \in Queries, queryPage \in QueryPages, queryLimit \in QueryLimits : GetUsers(q, queryPage, queryLimit)

SpecSearch == InitBaas /\ [][NextSearch]_vars

\* the tokens a reset request may present: none, or one drawn so far or later
ResetTokens == 0..MaxTokens

\* the routes that answer with user objects, the password reset routes, and
\* the clock
NextAccounts ==
  \/ \E u \in SqlAuthors, c \in NewContents : CreatePost(u, c)
  \/ \E id \in PostIds : GetPostAuthor(id)
  \/ \E id \in Users : GetUserObject(id)
  \/ \E id \in Users : ForgotPassword(id)
  \/ \E token \in ResetTokens : ResetPassword(token, "new")
  \/ Tick

SpecAccounts == InitBaas /\ [][NextAccounts]_vars

\* ------------------------------------------------------------------------
\* Properties
\* ------------------------------------------------------------------------

\* the friendships records of table from a to b
Records(table, a, b) == {f \in table : f.user_id = a /\ f.friend_id = b}

\* the friendships records of table connecting a and b, in either direction
Between(table, a, b) == Records(table, a, b) \cup Records(table, b, a)

HasStatus(rows, status) == \E f \in rows : f.status = status

\* the :id strings that name user u
IdsOf(u) == {id \in IdParams : validateId(id) /\ parseInt(id) = u}

\* C1: when a record from a to b is pending, a second friend request from a
\* to b is answered 400 (request already sent) and the records from a to b
\* stay exactly one.
C1_SecondRequestRejected ==
  [][\A a \in Users, b \in Users :
       (/\ a # b
        /\ HasStatus(Records(friendships, a, b), "pending")
        /\ res'.route = "POST friend-request" /\ res'.user = a /\ res'.id = b)
       => (/\ res'.code = 400
           /\ res'.message = "Friend request already sent"
           /\ Cardinality(Records(friendships', a, b)) = 1)]_vars

C1_Witness ==
  /\ res.route = "POST friend-request"
  /\ res.code = 400
  /\ res.message = "Friend request already sent"
  /\ res.user # res.id
  /\ HasStatus(Records(friendships, res.user, res.id), "pending")

\* C2: a friend request or a follow whose target is the requester is
\* answered with an error and changes neither table, in every state.
C2_SelfRequestRejected ==
  [][(/\ res'.route \in {"POST friend-request", "POST follow"}
      /\ res'.id = res'.user)
     => (/\ res'.code >= 400
         /\ friendships' = friendships
         /\ followers' = followers)]_vars

C2_Witness ==
  /\ res.route = "POST friend-request"
  /\ res.id = res.user
  /\ res.code = 400
  /\ res.message = "You cannot send a friend request to yourself"
  /\ friendships # {}

\* C3: a successful reject by b of a's request leaves no record from a to
\* b, and a friend request from a to b that comes next is answered 201 and
\* creates a new pending record from a to b.
C3_RejectThenRequest ==
  /\ (res.route = "PUT friend-request" /\ res.message = "Friend request rejected")
       => (res.code = 200 /\ Records(friendships, res.id, res.user) = {})
  /\ (/\ prev.route = "PUT friend-request" /\ prev.message = "Friend request rejected"
      /\ res.route = "POST friend-request" /\ res.user = prev.id /\ res.id = prev.user)
       => (/\ res.code = 201
           /\ \E f \in friendships :
                /\ Records(friendships, res.user, res.id) = {f}
                /\ f.status = "pending"
                /\ f.id = nextFriendshipId - 1)

C3_Witness ==
  /\ prev.route = "PUT friend-request" /\ prev.message = "Friend request rejected"
  /\ res.route = "POST friend-request" /\ res.user = prev.id /\ res.id = prev.user
  /\ res.code = 201

\* C4: remove friend on a pair with no accepted record between them (none,
\* pending or blocked) is answered 404 and leaves friendships as it was.
C4_RemoveNonAccepted ==
  [][(/\ res'.route = "DELETE friend"
      /\ res'.id # NaN
      /\ ~HasStatus(Between(friendships, res'.user, res'.id), "accepted"))
     => (res'.code = 404 /\ friendships' = friendships)]_vars

C4_Witness ==
  /\ res.route = "DELETE friend"
  /\ res.code = 404
  /\ HasStatus(Between(friendships, res.user, res.id), "pending")
  /\ HasStatus(Between(friendships, res.user, res.id), "blocked")

\* C5: with no record between 3 and 7, a request by 3 to 7 is answered 201
\* and leaves one pending record 3 -> 7; on it, accept by 7 is answered 200
\* and leaves the same record accepted with accepted_at set; on that, remove
\* of 7 by 3 is answered 200 and leaves no record between 3 and 7.
C5_Lifecycle ==
  [][/\ (/\ Between(friendships, 3, 7) = {}
         /\ res'.route = "POST friend-request" /\ res'.user = 3 /\ res'.id = 7)
          => (/\ res'.code = 201
              /\ \E f \in friendships' :
                   /\ Between(friendships', 3, 7) = {f}
                   /\ f.user_id = 3 /\ f.friend_id = 7
                   /\ f.status = "pending" /\ f.accepted_at = Null)
     /\ \A f \in friendships :
          (/\ Between(friendships, 3, 7) = {f}
           /\ f.user_id = 3 /\ f.status = "pending"
           /\ res'.route = "PUT friend-request" /\ res'.user = 7 /\ res'.id = 3
           /\ res'.action = "accept")
            => (/\ res'.code = 200
                /\ \E g \in friendships' :
                     /\ Between(friendships', 3, 7) = {g}
                     /\ g.id = f.id /\ g.user_id = 3 /\ g.friend_id = 7
                     /\ g.status = "accepted" /\ g.accepted_at # Null)
     /\ \A f \in friendships :
          (/\ Between(friendships, 3, 7) = {f}
           /\ f.user_id = 3 /\ f.status = "accepted"
           /\ res'.route = "DELETE friend" /\ res'.user = 3 /\ res'.id = 7)
            => (/\ res'.code = 200
                /\ Between(friendships', 3, 7) = {})]_vars

C5_Witness ==
  /\ res.route = "DELETE friend" /\ res.user = 3 /\ res.id = 7 /\ res.code = 200
  /\ prev.route = "PUT friend-request" /\ prev.user = 7 /\ prev.id = 3
  /\ prev.action = "accept" /\ prev.code = 200
  /\ friendships = {}
  /\ nextFriendshipId = 2

\* C6: at most one friendships record connects two users, counting both
\* directions.
C6_OneRecordPerPair ==
  \A a \in Users, b \in Users :
    a # b => Cardinality(Between(friendships, a, b)) <= 1

\* C7: respond with accept or reject acts on the pending record from :id to
\* the caller and on nothing else: accept turns that record into accepted
\* with accepted_at set, reject deletes it; without such a record the answer
\* is 404 and friendships is unchanged.
C7_RespondExactlyThatRecord ==
  [][(/\ res'.route = "PUT friend-request"
      /\ res'.id # NaN
      /\ res'.action \in {"accept", "reject"})
     => LET pending == {f \in Records(friendships, res'.id, res'.user) : f.status = "pending"}
        IN  IF pending = {}
              THEN res'.code = 404 /\ friendships' = friendships
              ELSE /\ res'.code = 200
                   /\ \E f \in pending :
                        IF res'.action = "accept"
                          THEN \E g \in friendships' :
                                 /\ g.accepted_at # Null
                                 /\ g = [f EXCEPT !.status = "accepted", !.accepted_at = g.accepted_at]
                                 /\ friendships' = (friendships \ {f}) \cup {g}
                          ELSE friendships' = friendships \ {f}]_vars

C7_Witness ==
  /\ res.route = "PUT friend-request"
  /\ res.action = "accept"
  /\ res.code = 404
  /\ HasStatus(Records(friendships, res.user, res.id), "pending")

\* C8: remove friend succeeds and deletes the accepted record between the
\* caller and :id, whichever of the two had sent the request.
C8_EitherPartyRemoves ==
  [][(/\ res'.route = "DELETE friend"
      /\ res'.id # NaN
      /\ HasStatus(Between(friendships, res'.user, res'.id), "accepted"))
     => (/\ res'.code = 200
         /\ ~HasStatus(Between(friendships', res'.user, res'.id), "accepted"))]_vars

\* C9: a friend request from a to b fails and inserts nothing when b has
\* blocked a or when a record between them, in either direction, is pending
\* or accepted; with no record between them a pending record is inserted.
C9_RequestGuards ==
  [][\A a \in Users, b \in Users :
       (/\ a # b
        /\ res'.route = "POST friend-request" /\ res'.user = a /\ res'.id = b)
       => /\ (\/ HasStatus(Records(friendships, b, a), "blocked")
              \/ HasStatus(Between(friendships, a, b), "pending")
              \/ HasStatus(Between(friendships, a, b), "accepted"))
               => (res'.code >= 400 /\ friendships' = friendships)
          /\ Between(friendships, a, b) = {}
               => (/\ res'.code = 201
                   /\ \E f \in friendships' :
                        /\ f.user_id = a /\ f.friend_id = b /\ f.status = "pending"
                        /\ friendships' = friendships \cup {f})]_vars

\* C10: once b has accepted a's request, each of the two is in the other's
\* friends list and friends count, and each sees friendship status accepted
\* and isFriend true on the other's profile.
C10_VisibleFromBothSides ==
  (res.route = "PUT friend-request" /\ res.message = "Friend request accepted")
    => \A ida \in IdsOf(res.id), idb \in IdsOf(res.user) :
         /\ \A r \in GetUserFriends(ida, Undefined, Undefined) :
              r.code = 200 /\ res.user \in r.friends /\ r.total >= 1
         /\ \A r \in GetUserFriends(idb, Undefined, Undefined) :
              r.code = 200 /\ res.id \in r.friends /\ r.total >= 1
         /\ \A r \in GetUser(res.user, ida) :
              r.code = 200 /\ r.friends >= 1 /\ r.isFriend /\ r.status = "accepted"
         /\ \A r \in GetUser(res.id, idb) :
              r.code = 200 /\ r.friends >= 1 /\ r.isFriend /\ r.status = "accepted"

\* the followers rows of table in which a follows b
Following(table, a, b) == {f \in table : f.follower_id = a /\ f.following_id = b}

\* C11: follow of b by a inserts one followers row a -> b unless one is
\* present, and then it is rejected (400) and the rows a -> b stay one;
\* unfollow of b by a deletes the row when present, and when absent is
\* answered not-found (404) and leaves followers as it was.
C11_FollowUnfollow ==
  [][\A a \in ActiveUsers, b \in ActiveUsers :
       a # b =>
         /\ (res'.route = "POST follow" /\ res'.user = a /\ res'.id = b /\ res'.code # 500)
             => IF Following(followers, a, b) = {}
                  THEN /\ res'.code = 200
                       /\ \E f \in followers' :
                            /\ f.follower_id = a /\ f.following_id = b
                            /\ f \notin followers
                            /\ followers' = followers \cup {f}
                  ELSE /\ res'.code = 400
                       /\ followers' = followers
                       /\ Cardinality(Following(followers', a, b)) = 1
         /\ (res'.route = "DELETE follow" /\ res'.user = a /\ res'.id = b)
             => IF Following(followers, a, b) # {}
                  THEN /\ res'.code = 200
                       /\ followers' = followers \ Following(followers, a, b)
                  ELSE /\ res'.code = 404
                       /\ followers' = followers]_vars

\* the rows of table with this id that are soft-deleted
Deleted(table, id) == {r \in table : r.id = id /\ ~r.is_active}

\* C12: a soft-deleted post or comment stays soft-deleted and is in no
\* answer: a deleted post is not in the posts list and its single-post
\* request is answered 404 without it, a deleted comment is not in the
\* comments list of its post; update, delete, like and comment on a deleted
\* post, and update and delete of a deleted comment, are answered 404 and
\* change no table.
C12_SoftDeletedIsGone ==
  [][/\ \A p \in posts' :
          ~p.is_active =>
            /\ p \notin SqlGetPosts'
            /\ \A r \in SqlGetPost(p.id)' : r.code = 404 /\ p \notin r.data
     /\ \A c \in comments' :
          ~c.is_active => c \notin SqlGetComments(c.post_id)'
     /\ \A id \in PostIds :
          Deleted(posts, id) # {} =>
            /\ Deleted(posts', id) = Deleted(posts, id)
            /\ (res'.route \in {"PUT post", "DELETE post", "POST like", "POST comment"} /\ res'.id = id)
                => (res'.code = 404 /\ contentVars' = contentVars)
     /\ \A id \in CommentIds :
          Deleted(comments, id) # {} =>
            /\ Deleted(comments', id) = Deleted(comments, id)
            /\ (res'.route \in {"PUT comment", "DELETE comment"} /\ res'.id = id)
                => (res'.code = 404 /\ contentVars' = contentVars)]_vars

C12_Witness ==
  /\ res.route = "POST comment"
  /\ res.code = 404
  /\ Deleted(posts, res.id) # {}
  /\ \E c \in comments : c.post_id = res.id /\ ~c.is_active

\* the files of directory dir that upload uuid created
FilesOf(dir, uuid) == {f \in dir : f.uuid = uuid}

\* the size limit in force: MAX_FILE_SIZE, or 10 MB without it
ConfiguredLimit == IF maxFileSize = Undefined THEN DefaultMaxFileSize ELSE maxFileSize

\* C13: an upload whose file is over the size limit is answered 400 'File
\* too large' as the next step after the file was received, without the
\* handler running: the uploads directory then holds no file of that
\* upload, and held no processed copy, thumbnail or avatar of it before.
C13_FileTooLarge ==
  [][(upload.pc # "idle" /\ upload.size > ConfiguredLimit)
     => (/\ upload.pc = "stored"
         /\ FilesOf(files, upload.uuid) \subseteq {FileName("", upload.uuid)}
         /\ upload' = Idle
         /\ res' = Reply(upload.route, upload.uuid, 400, "File too large")
         /\ FilesOf(files', upload.uuid) = {})]_vars

C13_Witness ==
  /\ res.message = "File too large"
  /\ res.code = 400
  /\ maxFileSize = Undefined
  /\ FilesOf(files, res.id) = {}
  /\ upload = Idle

\* C14: when an upload request has been answered with a failure, the
\* answer is a client error (4xx) and the uploads directory holds no file
\* that the request created.
C14_FailureDiscardsAll ==
  (res.route \in UploadRoutes /\ res.code # 200)
    => (res.code \in 400..499 /\ FilesOf(files, res.id) = {})

\* C15: while POST /upload/image is being served, the original file is
\* missing from the uploads directory only when the processed copy and the
\* thumbnail are both there.
C15_OriginalDeletedLast ==
  (upload.route = "POST image" /\ upload.pc # "idle" /\ FileName("", upload.uuid) \notin files)
    => {FileName("processed_", upload.uuid), FileName("thumb_", upload.uuid)} \subseteq files

\* the token a request presents: the bearer header's, else the cookie's,
\* else the session's
Presented(c) ==
  IF c.authorization.scheme = "Bearer" /\ c.authorization.token # NoToken THEN c.authorization.token
  ELSE IF c.cookie # NoToken THEN c.cookie
  ELSE c.session

Authentic(c) == Presented(c) # NoToken /\ Presented(c).signed /\ Presented(c).id \in ActiveUsers

\* C16: the handler of a protected route is reached only by a request whose
\* presented token (bearer header first, else cookie, else session) is
\* there, verifies and names an active user, and then req.user is that
\* user; every other request ends with 401 without the handler.
C16_ProtectGuardsHandler ==
  /\ call.pc = "handler" => (Authentic(call) /\ call.user = Presented(call).id)
  /\ call.pc = "done" =>
       IF Authentic(call) THEN call.code = 200 /\ call.user = Presented(call).id
                          ELSE call.code = 401 /\ call.user = Anonymous

C16_Witness ==
  /\ call.pc = "done"
  /\ call.code = 200
  /\ call.user = 3
  /\ call.authorization = [scheme |-> "Bearer", token |-> [id |-> 3, signed |-> TRUE]]
  /\ call.cookie = [id |-> 7, signed |-> TRUE]

\* C17: a list request that reaches the database uses page 1 when the page
\* parameter is absent and limit 10 when the limit parameter is absent, and
\* its limit is between 1 and 100.
C17_PaginationDefaultsAndCap ==
  (call.pc = "listed" /\ call.code = 200)
    => /\ call.queryPage = Undefined => call.page = 1
       /\ call.queryLimit = Undefined => call.limit = 10
       /\ call.limit \in 1..100

\* the driver codes the claim names
DriverCodes == {"ER_DUP_ENTRY", "ER_NO_REFERENCED_ROW_2", "ER_ROW_IS_REFERENCED_2"}

Plain(err) ==
  /\ err.name = "Error"
  /\ err.code \notin {"LIMIT_FILE_SIZE", "LIMIT_UNEXPECTED_FILE"}
  /\ err.status = Undefined
  /\ err.statusCode = Undefined

OthersRows(table, id, user) == {r \in table : r.id = id /\ r.is_active /\ r.user_id # user}

\* C19: update or delete of a post or comment by a user who does not own it
\* and whose role is plain user is answered 403 and leaves the tables as
\* they were, in both implementations.
C19_NonOwnerForbidden ==
  [][/\ (/\ res'.route \in {"PUT post", "DELETE post"}
         /\ Role(res'.user) = "user"
         /\ OthersRows(posts, res'.id, res'.user) # {})
          => (res'.code = 403 /\ contentVars' = contentVars)
     /\ (/\ res'.route \in {"PUT comment", "DELETE comment"}
         /\ Role(res'.user) = "user"
         /\ OthersRows(comments, res'.id, res'.user) # {})
          => (res'.code = 403 /\ contentVars' = contentVars)]_vars

\* two requests that are the same request, both answered with success
BothSucceeded(a, b) ==
  /\ a.pc = "done" /\ b.pc = "done"
  /\ a.route = b.route /\ a.user = b.user /\ a.target = b.target
  /\ a.code \in {200, 201} /\ b.code \in {200, 201}

\* C20: when two identical friend requests, or two identical follow
\* requests, have both passed the existence check and both been answered
\* with success, the table holds two rows for that (user, target) pair.
C20_BothInsert ==
  BothSucceeded(Requests[1], Requests[2])
    => IF Requests[1].route = "POST follow"
         THEN Cardinality(Following(followers, Requests[1].user, Requests[1].target)) >= 2
         ELSE Cardinality(Records(friendships, Requests[1].user, Requests[1].target)) >= 2

C20_Witness ==
  /\ BothSucceeded(Requests[1], Requests[2])
  /\ Requests[1].route = "POST follow"
  /\ Cardinality(Following(followers, Requests[1].user, Requests[1].target)) = 2

\* the likes rows of a post, and its comment rows
LikeRows(postId) == {l \in likes : l.post_id = postId}

CommentRows(postId) == {c \in comments : c.post_id = postId}

\* C21: with the BaaS requests served one at a time, each post's likes_count
\* is the number of like rows of the post and its comments_count the number
\* of comment rows of the post
C21_CountersMatchRows ==
  backend = "baas" =>
    \A p \in posts :
      /\ counts[p.id].likes_count = Cardinality(LikeRows(p.id))
      /\ counts[p.id].comments_count = Cardinality(CommentRows(p.id))

\* a like request answered with 200
Liked == res'.route = "POST like" /\ res'.code = 200

\* the like rows of the caller of the latest like request, before and after
CallerLikes == {l \in likes : l.post_id = res'.id /\ l.user_id = res'.user}

CallerLikesAfter == {l \in likes' : l.post_id = res'.id /\ l.user_id = res'.user}

\* C23: in both implementations a like request of a user with no like row
\* for the post creates one and reports liked, and a like request of a user
\* with a like row removes it and reports not liked
C23_LikeToggles ==
  [][Liked =>
       IF CallerLikes = {}
         THEN Cardinality(CallerLikesAfter) = 1
              /\ res'.message \in {"Post liked", "Post liked successfully"}
         ELSE CallerLikesAfter = {}
              /\ res'.message \in {"Post unliked", "Post unliked successfully"}]_vars

\* C22: a friendships record has accepted_at set if and only if its status
\* is accepted; no pending or blocked record carries the timestamp
C22_AcceptedAtIffAccepted ==
  \A f \in friendships : (f.accepted_at # Null) <=> (f.status = "accepted")

\* an accept has been served and its record carries the timestamp, next to a
\* record that is not accepted
C22_Witness ==
  /\ res.route = "PUT friend-request" /\ res.action = "accept" /\ res.code = 200
  /\ \E f \in friendships : f.status = "accepted" /\ f.accepted_at # Null
  /\ \E f \in friendships : f.status # "accepted" /\ f.accepted_at = Null

\* two requests of the same route on the same post by different users, the
\* only requests served, both answered with success
BothCompleted(route) ==
  /\ Likings[1].route = route /\ Likings[2].route = route
  /\ Likings[1].pc = "done" /\ Likings[2].pc = "done"
  /\ Likings[1].code \in {200, 201} /\ Likings[2].code \in {200, 201}
  /\ Likings[1].target = Likings[2].target
  /\ Likings[1].user # Likings[2].user

\* C24: when two different users like the same post, or comment on it,
\* concurrently and both requests complete, the post's likes_count
\* (comments_count) has gone up by two, from 0 to 2; likes_count is never
\* negative
C24_NoLostIncrement ==
  /\ \A id \in DOMAIN counts : counts[id].likes_count >= 0
  /\ BothCompleted("POST like") => counts[Likings[1].target].likes_count = 2
  /\ BothCompleted("POST comment") => counts[Likings[1].target].comments_count = 2

\* the filename that POST /upload/image returns for upload uuid
ReturnedFilename(uuid) == FileName("processed_", uuid)

\* C25: a delete request that removes the processed image of an upload, the
\* file POST /upload/image named in its response, leaves no file of that
\* upload in the uploads directory: the thumbnail goes with it
C25_DeleteRemovesThumbnail ==
  [][(/\ res'.route = "DELETE file" /\ res'.code = 200
      /\ ReturnedFilename(res'.id) \in files
      /\ ReturnedFilename(res'.id) \notin files')
     => FilesOf(files', res'.id) = {}]_vars

\* the user objects of the latest response
Objects == IF call.pc = "sent" THEN call.objects ELSE {}

\* object carries a value under field
Carries(object, field) == field \in DOMAIN object /\ object[field] # Null

\* C26: no success response contains a user's password_hash or reset token
\* (verification_token), for the user itself or for a user nested as author
C26_NoSecretsInResponses ==
  res.code = 200 =>
    \A object \in Objects : ~Carries(object, "password_hash") /\ ~Carries(object, "verification_token")

\* C29: reset-password accepts a token only within the hour after
\* forgot-password issued it, and only once: on success no user holds the
\* token any more, so the next request with it is refused
C29_ResetTokenExpires ==
  [][(res'.route = "POST reset-password" /\ res'.code = 200)
       => (/\ clock <= resetTokenExpiry[res'.user]
           /\ \A id \in DOMAIN users : users'[id].verification_token # res'.id)]_vars

\* a call of transaction has ended
Ended == call.pc = "end"

\* the callback returned, the work was committed and the caller got the result
Committed == call.result = "returned" /\ call.tx = "committed" /\ call.database = call.work

\* an error occurred, the work was rolled back (or no connection was ever
\* taken) and the caller got that error
RolledBack ==
  /\ call.result # "returned"
  /\ IF call.taken THEN call.tx = "rolledback" /\ call.result = call.error
                    ELSE call.tx = "none" /\ call.result = "getConnection"

\* the connection taken from the pool was released exactly once
ReleasedOnce == call.taken => call.released = 1

\* C27 as stated: every call ends committed with the result returned, or
\* rolled back with the error rethrown, and has released its connection
\* exactly once
C27_CommitOrRollback ==
  Ended => /\ (Committed \/ RolledBack)
           /\ ~(Committed /\ RolledBack)
           /\ ReleasedOnce

\* C27 amended: the same, except that a call whose rollback throws ends with
\* the work not rolled back and the rollback's error thrown in place of the
\* error caught; its connection is still released exactly once
C27_CommitOrRollbackUnlessRollbackThrows ==
  Ended => /\ IF call.taken /\ call.result = "rollback"
                THEN call.tx \in {"none", "open"} /\ call.error \in {"beginTransaction", "callback", "commit"}
                ELSE (Committed \/ RolledBack) /\ ~(Committed /\ RolledBack)
           /\ ReleasedOnce

\* a call whose commit threw and whose rollback threw has ended, after a call
\* that committed
C27_Witness ==
  /\ Ended /\ call.calls = 2
  /\ call.error = "commit" /\ call.result = "rollback" /\ call.released = 1
  /\ call.database # Null

\* the group_members rows of user in group
Memberships(table, groupId, userId) == {m \in table : m.group_id = groupId /\ m.user_id = userId}

\* every active group has its creator as an admin member, and no user has two
\* rows for one group
GroupsInvariant ==
  /\ \A g \in groups :
       g.is_active => \E m \in Memberships(group_members, g.id, g.creator_id) : m.role = "admin"
  /\ \A g \in GroupIds, u \in Users : Cardinality(Memberships(group_members, g, u)) <= 1

\* the latest request found its group and was made by the group's creator
ByCreator == \E g \in groups : g.id = res'.id /\ g.is_active /\ g.creator_id = res'.user

\* the latest request found its group and was made by a member of it
ByMember == (\E g \in groups : g.id = res'.id /\ g.is_active)
            /\ Memberships(group_members, res'.id, res'.user) # {}

Listed == res'.route = "GET users" /\ validatePagination(call'.queryPage, call'.queryLimit)

\* C30: the search filter of GET /users is optional: a request without q
\* passes validation and gets a page of the users, and a request with q that
\* is answered with users gets only users matching q
C30_SearchIsOptional ==
  [][Listed =>
       /\ ~call'.q.given => (res'.code = 200 /\ call'.objects \subseteq UserRows)
       /\ (call'.q.given /\ res'.code = 200)
            => \A u \in call'.objects : u.username = Trim(call'.q.value)]_vars

====
